---- MODULE Spec2Model ----
(***************************************************************************)
(* Serie AI bot (src/bot.py): the access gate (SimpleUserStorage and the   *)
(* access_control decorator), the SQLite entity store (DatabaseManager),   *)
(* the analysis engine (DataManager.analyze_match) and the command and     *)
(* callback handlers that tie them together.                               *)
(*                                                                         *)
(* Two specifications share the state:                                     *)
(*   Spec       the bot: one step per Telegram update, handled whole       *)
(*              (the dispatcher processes updates one at a time), then a   *)
(*              step in which the dispatcher turns to the next update;     *)
(*   StoreSpec  the DatabaseManager on its own: one step per call of one   *)
(*              of its methods, with arbitrary arguments.                  *)
(* The users table's created_at and last_seen columns are left out: no     *)
(* statement of the program reads them.                                    *)
(***************************************************************************)
EXTENDS Integers, Sequences, FiniteSets, TLC

VARIABLES
    INVITE_ONLY,     \* bot.py:347, read once at import
    ADMIN_USER_ID,   \* bot.py:346, the comma-split environment value
    allowed_users,   \* SimpleUserStorage.allowed_users
    users,           \* table users, keyed by its UNIQUE telegram_id
    predictions,     \* table predictions, in rowid order
    value_bets,      \* table value_bets, in rowid order
    clock,           \* what datetime.now() returns
    granted,         \* history: identities add_user was performed on
    denied,          \* history: identities that were refused at least once
    last,            \* the update being answered: who, what the gate did, the calls made, the reply
    ret,             \* StoreSpec: the DatabaseManager call being returned from, and its result
    appended,        \* StoreSpec: id of the prediction the latest write appended, else 0
    cursor,          \* db_manager.cursor, shared by the bot and the web-server thread
    bot,             \* CursorSpec: the DatabaseManager call the bot thread is in
    web              \* CursorSpec: the /health request the web-server thread is in

vars == <<INVITE_ONLY, ADMIN_USER_ID, allowed_users, users, predictions,
          value_bets, clock, granted, denied, last, ret, appended, cursor, bot, web>>

(***************************************************************************)
(* Bounds of the model.                                                    *)
(***************************************************************************)
\* The predictions, and the value bets, /predict saves in a run of the bot
MaxPreds == 1
\* The rows the direct calls of the DatabaseManager save in a run
MaxRows == 3
\* The last instant of the clock
MaxTime == 1

\* The identities (Telegram user ids) of the model
Ids == {1, 2}

None == "None"

(***************************************************************************)
(* Configuration (bot.py:346-347).  ADMIN_USER_ID is the list of strings   *)
(* that os.environ.get("ADMIN_USER_ID", "").split(",") yields; a string is *)
(* a sequence of one-character strings.  The unset variable gives [""].    *)
(***************************************************************************)
AdminConfigs ==
    { << <<>> >>,
      << <<" ", "1", " ">>, <<"a", "b", "c">> >> }

Digits == <<"0", "1", "2", "3", "4", "5", "6", "7", "8", "9">>

IsSpace(c) == c \in {" ", "\t", "\n"}

RECURSIVE lstrip(_)
lstrip(s) == IF s # <<>> /\ IsSpace(Head(s)) THEN lstrip(Tail(s)) ELSE s

RECURSIVE rstrip(_)
rstrip(s) ==
    IF s # <<>> /\ IsSpace(s[Len(s)]) THEN rstrip(SubSeq(s, 1, Len(s) - 1)) ELSE s

\* str.strip()
strip(s) == rstrip(lstrip(s))

\* str.isdigit(): non-empty and every character a digit
isdigit(s) ==
    /\ s # <<>>
    /\ \A k \in 1..Len(s) : \E d \in 1..Len(Digits) : Digits[d] = s[k]

DigitValue(c) == (CHOOSE d \in 1..Len(Digits) : Digits[d] = c) - 1

\* int(s) of a string of digits
RECURSIVE int(_)
int(s) ==
    IF s = <<>> THEN 0
    ELSE 10 * int(SubSeq(s, 1, Len(s) - 1)) + DigitValue(s[Len(s)])

\* str(n) of a natural number
RECURSIVE str(_)
str(n) == IF n < 10 THEN <<Digits[n + 1]>> ELSE str(n \div 10) \o <<Digits[(n % 10) + 1]>>

(***************************************************************************)
(* SimpleUserStorage (bot.py:570-588).                                     *)
(***************************************************************************)
SimpleUserStorage_init_nostrip(admin_ids) ==
    { int(admin_ids[k]) : k \in { j \in 1..Len(admin_ids) : isdigit(admin_ids[j]) } }

\* __init__: allowed_users after construction
SimpleUserStorage_init(admin_ids) ==
    { int(strip(admin_ids[k])) :
        k \in { j \in 1..Len(admin_ids) : isdigit(strip(admin_ids[j])) } }

is_user_allowed_gated_only(user_id) == user_id \in allowed_users

is_user_allowed(user_id) ==
    IF ~INVITE_ONLY THEN TRUE ELSE user_id \in allowed_users

add_user_replace(user_id) == {user_id}

add_user_noop(user_id) == allowed_users

\* add_user: allowed_users after the call
add_user(user_id) ==
    IF user_id \notin allowed_users THEN allowed_users \cup {user_id} ELSE allowed_users

(***************************************************************************)
(* Telegram updates.  A message carries its text split at whitespace       *)
(* (text.split(): the command, then context.args); a callback query        *)
(* carries its data; any other update (an edited message, ...) has neither *)
(* update.message nor update.callback_query.                               *)
(***************************************************************************)
InviteCode == "invite123"

Texts ==
    { <<"/start">>, <<"/start", "invite123">>, <<"/start", "letmein">>,
      <<"/predict">>, <<"/predict", "Inter", "Milan">>,
      <<"/predict", "inter", "MILAN", "SerieA">>,
      <<"/mystats">>, <<"/matches">>, <<"/standings">>, <<"/value">>, <<"/help">> }

CallbackData ==
    { "show_matches", "standings_SA", "user_stats", "show_help", "back_to_menu",
      "analyze_Inter_Milan", "bogus" }

Message(user_id, from_user, text) ==
    [kind |-> "message", user_id |-> user_id, from_user |-> from_user,
     text |-> text, data |-> None]

CallbackQueryUpdate(user_id, from_user, data) ==
    [kind |-> "callback_query", user_id |-> user_id, from_user |-> from_user,
     text |-> <<>>, data |-> data]

\* An update with neither message nor callback_query set, such as an edited
\* message
Other(user_id, from_user) ==
    [kind |-> "other", user_id |-> user_id, from_user |-> from_user,
     text |-> <<>>, data |-> None]

\* The Telegram profile of each identity of the model
ProfileOf(user_id) ==
    IF user_id = 1 THEN [username |-> "neo", first_name |-> "Tom", last_name |-> None]
    ELSE [username |-> None, first_name |-> "Thomas", last_name |-> "A"]

\* The updates the dispatcher hands to the handlers
Messages(commands) ==
    { Message(i, ProfileOf(i), t) : i \in Ids, t \in { x \in Texts : x[1] \in commands } }

CallbackQueries ==
    { CallbackQueryUpdate(i, ProfileOf(i), d) : i \in Ids, d \in CallbackData }

Others == { Other(i, ProfileOf(i)) : i \in Ids }

\* text.startswith('/start'), for the commands the dispatcher routes
startswith_start(text) == text # <<>> /\ text[1] \in {"/start"}

access_control_no_gate(update) ==
    IF update.kind = "other" THEN "return" ELSE "call"

access_control_any_start(update) ==
    IF update.kind = "other" THEN "return"
    ELSE IF ~is_user_allowed(update.user_id)
         THEN IF update.kind = "message" /\ startswith_start(update.text)
              THEN "invite" ELSE "deny"
         ELSE "call"

access_control_denied_for_good(update) ==
    IF update.kind = "other" THEN "return"
    ELSE IF ~is_user_allowed(update.user_id)
         THEN IF /\ update.user_id \notin denied
                 /\ update.kind = "message"
                 /\ startswith_start(update.text)
                 /\ Len(update.text) > 1
                 /\ update.text[2] = InviteCode
              THEN "invite" ELSE "deny"
         ELSE "call"

\* The branch the access_control wrapper takes for an update:
\*   "return"  neither a message nor a callback query (bot.py:601-602)
\*   "invite"  add_user, "Invitation accepted", return (bot.py:605-615)
\*   "deny"    "Access Restricted", return (bot.py:617-625)
\*   "call"    the wrapped handler runs (bot.py:627)
access_control(update) ==
    IF update.kind = "other" THEN "return"
    ELSE IF ~is_user_allowed(update.user_id)
         THEN IF /\ update.kind = "message"
                 /\ update.text # <<>>
                 /\ startswith_start(update.text)
                 /\ Len(update.text) > 1
                 /\ update.text[2] = InviteCode
              THEN "invite" ELSE "deny"
         ELSE "call"

(***************************************************************************)
(* Exact arithmetic for the engine's floats.  A number is a fraction       *)
(* <<n, d>> in lowest terms with d > 0.  Python's round() is exact on the  *)
(* binary value it is given; a value whose decimal expansion lies exactly  *)
(* halfway is stored just below or just above the half, so the direction   *)
(* of such a tie (tie_up) is an input of the rounding.                     *)
(***************************************************************************)
Abs(x) == IF x < 0 THEN -x ELSE x

RECURSIVE GCD(_, _)
GCD(a, b) == IF b = 0 THEN a ELSE GCD(b, a % b)

Frac(n, d) ==
    LET g == GCD(Abs(n), Abs(d))
        sgn == IF d < 0 THEN -1 ELSE 1
    IN  IF n = 0 THEN <<0, 1>> ELSE <<sgn * (n \div g), sgn * (d \div g)>>

FInt(n) == <<n, 1>>
FAdd(a, b) == Frac(a[1] * b[2] + b[1] * a[2], a[2] * b[2])
FSub(a, b) == Frac(a[1] * b[2] - b[1] * a[2], a[2] * b[2])
FMul(a, b) == Frac(a[1] * b[1], a[2] * b[2])
FDiv(a, b) == Frac(a[1] * b[2], a[2] * b[1])
FGt(a, b) == a[1] * b[2] > b[1] * a[2]
FMax(a, b) == IF FGt(b, a) THEN b ELSE a

Pow10(k) == IF k = 0 THEN 1 ELSE IF k = 1 THEN 10 ELSE 100

\* The integer nearest to the fraction q, a tie going up iff tie_up
nearest(q, tie_up) ==
    LET f == q[1] \div q[2]
        twice == 2 * (q[1] - f * q[2])
    IN  IF twice > q[2] THEN f + 1
        ELSE IF twice < q[2] THEN f
        ELSE IF tie_up THEN f + 1 ELSE f

\* round(x, ndigits), as an integer count of 10^-ndigits
round(x, ndigits, tie_up) == nearest(FMul(x, FInt(Pow10(ndigits))), tie_up)

(***************************************************************************)
(* DataManager.analyze_match (bot.py:494-562).                             *)
(***************************************************************************)
\* The code points of the team names the model uses
CodePoints(name) ==
    CASE name = "Inter" -> <<73, 110, 116, 101, 114>>
      [] name = "inter" -> <<105, 110, 116, 101, 114>>
      [] name = "Milan" -> <<77, 105, 108, 97, 110>>
      [] name = "MILAN" -> <<77, 73, 76, 65, 78>>
      [] name = "" -> <<>>
      [] name = " " -> <<32>>

lower_as_written(cs) == cs

\* str.lower() on code points
lower(cs) == [k \in 1..Len(cs) |-> IF cs[k] >= 65 /\ cs[k] <= 90 THEN cs[k] + 32 ELSE cs[k]]

RECURSIVE sum(_)
sum(xs) == IF xs = <<>> THEN 0 ELSE Head(xs) + sum(Tail(xs))

\* sum(ord(c) for c in name.lower()) % 100
team_score(name) == sum(lower(CodePoints(name))) % 100

\* The values random.uniform returns in one call of analyze_match, and the
\* directions in which the floats of that call fall at a rounding tie: one
\* for the draw probability, which is 18.75 up to float error in every
\* call, and one for the other floats.
Draws ==
    { [jitter_home |-> <<0, 1>>, jitter_away |-> <<0, 1>>,
       margin |-> [home |-> <<92, 100>>, draw |-> <<95, 100>>, away |-> <<97, 100>>],
       tie_up |-> FALSE, tie_up_draw |-> FALSE],
      [jitter_home |-> <<3, 2>>, jitter_away |-> <<6, 5>>,
       margin |-> [home |-> <<97, 100>>, draw |-> <<92, 100>>, away |-> <<92, 100>>],
       tie_up |-> TRUE, tie_up_draw |-> TRUE] }

max0(n) == IF n > 0 THEN n ELSE 0

\* home_score and away_score from the two sums modulo 100 (bot.py:498-499)
scores_from(home_score, away_score) ==
    IF home_score + away_score = 0
    THEN [home |-> 50, away |-> 50]
    ELSE [home |-> home_score, away |-> away_score]

\* home_score and away_score (bot.py:495-499)
team_scores(home, away) == scores_from(team_score(home), team_score(away))

raw_probabilities_no_floor(scores) ==
    LET home_prob == FMul(Frac(scores.home, scores.home + scores.away), FInt(100))
        away_prob == FMul(Frac(scores.away, scores.home + scores.away), FInt(100))
    IN  [home |-> home_prob,
         away |-> away_prob,
         draw |-> FSub(FSub(FInt(100), home_prob), away_prob)]

\* home_prob, away_prob and draw_prob before the draw share is taken off
\* (bot.py:501-503)
raw_probabilities(scores) ==
    LET home_prob == FMul(Frac(scores.home, scores.home + scores.away), FInt(100))
        away_prob == FMul(Frac(scores.away, scores.home + scores.away), FInt(100))
    IN  [home |-> home_prob,
         away |-> away_prob,
         draw |-> FMax(FInt(20), FSub(FSub(FInt(100), home_prob), away_prob))]

\* home_prob -= draw_prob / 3; away_prob -= draw_prob / 3 (bot.py:505-506)
reduced_probabilities(p) ==
    [home |-> FSub(p.home, FDiv(p.draw, FInt(3))),
     away |-> FSub(p.away, FDiv(p.draw, FInt(3))),
     draw |-> p.draw]

normalised_probabilities_unscaled(p, total) == p

\* The three probabilities scaled to sum to 100 (bot.py:508-511)
normalised_probabilities(p, total) ==
    [home |-> FMul(FDiv(p.home, total), FInt(100)),
     draw |-> FMul(FDiv(p.draw, total), FInt(100)),
     away |-> FMul(FDiv(p.away, total), FInt(100))]

match_probabilities(p) == normalised_probabilities(p, FAdd(FAdd(p.home, p.draw), p.away))

predicted_outcome_home_first(p) ==
    IF ~FGt(p.away, p.home) /\ ~FGt(p.draw, p.home) THEN "1"
    ELSE IF FGt(p.draw, p.home) /\ FGt(p.draw, p.away) THEN "X"
    ELSE "2"

\* prediction (bot.py:513-521)
predicted_outcome(p) ==
    IF FGt(p.home, p.away) /\ FGt(p.home, p.draw) THEN "1"
    ELSE IF FGt(p.draw, p.home) /\ FGt(p.draw, p.away) THEN "X"
    ELSE "2"

\* The value a dictionary keyed '1', 'X', '2' gives for a prediction
by_outcome(prediction, d) ==
    IF prediction = "1" THEN d.home ELSE IF prediction = "X" THEN d.draw ELSE d.away

\* home_goals, away_goals (bot.py:523-524)
expected_goals(scores, rnd) ==
    [home |-> max0(round(FAdd(FMul(Frac(scores.home, 100), Frac(5, 2)), rnd.jitter_home),
                         0, rnd.tie_up)),
     away |-> max0(round(FAdd(FMul(Frac(scores.away, 100), Frac(9, 5)), rnd.jitter_away),
                         0, rnd.tie_up))]

\* fair_odds_home, fair_odds_draw, fair_odds_away (bot.py:526-528)
fair_odds(p, tie_up) ==
    [home |-> IF FGt(p.home, FInt(0)) THEN round(FDiv(FInt(100), p.home), 2, tie_up) ELSE 0,
     draw |-> IF FGt(p.draw, FInt(0)) THEN round(FDiv(FInt(100), p.draw), 2, tie_up) ELSE 0,
     away |-> IF FGt(p.away, FInt(0)) THEN round(FDiv(FInt(100), p.away), 2, tie_up) ELSE 0]

\* market_odds (bot.py:530-534)
market_odds(fair, rnd) ==
    [home |-> round(FMul(Frac(fair.home, 100), rnd.margin.home), 2, rnd.tie_up),
     draw |-> round(FMul(Frac(fair.draw, 100), rnd.margin.draw), 2, rnd.tie_up),
     away |-> round(FMul(Frac(fair.away, 100), rnd.margin.away), 2, rnd.tie_up)]

edge_percent_reversed(odds, fair, tie_up) ==
    round(FDiv(FMul(Frac(fair - odds, 100), FInt(100)), Frac(odds, 100)), 1, tie_up)

\* edge (bot.py:536-538).  Market odds of 0 divide by zero
\* (ZeroDivisionError); the predicted outcome's probability is at least 40,
\* so its odds are never 0.
edge_percent(odds, fair, tie_up) ==
    round(FDiv(FMul(Frac(odds - fair, 100), FInt(100)), Frac(odds, 100)), 1, tie_up)

value_bet_below(prediction, confidence, odds, edge, tie_up) ==
    [market |-> "Match Result",
     selection |-> prediction,
     odds |-> odds,
     edge |-> edge,
     fair_odds |-> round(FDiv(FInt(100), confidence), 2, tie_up),
     stake |-> IF edge < 50 THEN "STAR_STAR" ELSE IF edge < 30 THEN "STAR" ELSE "PAUSE"]

\* The 'value_bet' entry of the result (bot.py:553-560)
value_bet(prediction, confidence, odds, edge, tie_up) ==
    [market |-> "Match Result",
     selection |-> prediction,
     odds |-> odds,
     edge |-> edge,
     fair_odds |-> round(FDiv(FInt(100), confidence), 2, tie_up),
     stake |-> IF edge > 50 THEN "STAR_STAR" ELSE IF edge > 30 THEN "STAR" ELSE "PAUSE"]

\* The dictionary analyze_match returns (bot.py:540-562)
analysis_result(p, prediction, goals, fair, market, league, rnd) ==
    [probabilities |-> [home |-> round(p.home, 1, rnd.tie_up),
                        draw |-> round(p.draw, 1, rnd.tie_up_draw),
                        away |-> round(p.away, 1, rnd.tie_up)],
     prediction |-> prediction,
     confidence |-> round(by_outcome(prediction, p), 1, rnd.tie_up),
     goals |-> [home |-> goals.home, away |-> goals.away, total |-> goals.home + goals.away],
     value_bet |-> value_bet(prediction, by_outcome(prediction, p),
                             by_outcome(prediction, market),
                             edge_percent(by_outcome(prediction, market),
                                          by_outcome(prediction, fair), rnd.tie_up),
                             rnd.tie_up),
     league |-> league]

analysis_with_odds(scores, p, fair, league, rnd) ==
    analysis_result(p, predicted_outcome(p), expected_goals(scores, rnd), fair,
                    market_odds(fair, rnd), league, rnd)

analysis_of_probabilities(scores, p, league, rnd) ==
    analysis_with_odds(scores, p, fair_odds(p, rnd.tie_up), league, rnd)

analyze_scores_jittered(scores, league, rnd) ==
    analysis_of_probabilities(
        scores,
        match_probabilities(reduced_probabilities(raw_probabilities(
            [home |-> scores.home + rnd.jitter_home[1],
             away |-> scores.away + rnd.jitter_away[1]]))),
        league, rnd)

\* analyze_match from home_score and away_score on (bot.py:501-562)
analyze_scores(scores, league, rnd) ==
    analysis_of_probabilities(
        scores,
        match_probabilities(reduced_probabilities(raw_probabilities(scores))),
        league, rnd)

\* The result of analyze_match.  Probabilities, confidence and edge are in
\* tenths, odds in hundredths.
analyze_match(home, away, league, rnd) ==
    analyze_scores(team_scores(home, away), league, rnd)

(***************************************************************************)
(* DatabaseManager (bot.py:20-336).  Every method runs in a try/except:    *)
(* ok = FALSE is the backend raising (the statement fails, nothing is      *)
(* written) and the method returning its fallback value.                   *)
(***************************************************************************)
\* get_or_create_user: the users table after the call
get_or_create_user(telegram_id, username, first_name, last_name, ok) ==
    IF ~ok THEN users
    ELSE IF telegram_id \in DOMAIN users
         THEN [users EXCEPT ![telegram_id] =
                  [@ EXCEPT !.username = username, !.first_name = first_name,
                            !.last_name = last_name]]
         ELSE users @@ (telegram_id :>
                  [telegram_id |-> telegram_id, username |-> username,
                   first_name |-> first_name, last_name |-> last_name])

\* The row save_prediction inserts (bot.py:195-204)
prediction_row(id, telegram_id, fields, created_at) ==
    [id |-> id,
     telegram_id |-> telegram_id,
     home_team |-> fields.home_team,
     away_team |-> fields.away_team,
     league |-> fields.league,
     predicted_result |-> fields.predicted_result,
     home_prob |-> fields.home_prob,
     draw_prob |-> fields.draw_prob,
     away_prob |-> fields.away_prob,
     confidence |-> fields.confidence,
     expected_home_goals |-> fields.expected_home_goals,
     expected_away_goals |-> fields.expected_away_goals,
     created_at |-> created_at]

\* save_prediction: the predictions table after the call; fields holds the
\* arguments home_team .. expected_away_goals
save_prediction(telegram_id, fields, ok) ==
    IF ~ok THEN predictions
    ELSE Append(predictions,
                prediction_row(Len(predictions) + 1, telegram_id, fields, clock))

\* what save_prediction returns: the new row's id, or 0 after a failure
save_prediction_id(ok) == IF ok THEN Len(predictions) + 1 ELSE 0

\* save_value_bet: the value_bets table after the call; fields holds the
\* arguments match .. recommended_stake
save_value_bet(telegram_id, fields, ok) ==
    IF ~ok THEN value_bets
    ELSE Append(value_bets,
            [id |-> Len(value_bets) + 1,
             telegram_id |-> telegram_id,
             match |-> fields.match,
             league |-> fields.league,
             selection |-> fields.selection,
             bet_type |-> fields.bet_type,
             odds |-> fields.odds,
             probability |-> fields.probability,
             edge |-> fields.edge,
             confidence |-> fields.confidence,
             recommended_stake |-> fields.recommended_stake,
             created_at |-> clock,
             is_active |-> 1])

Min(a, b) == IF a < b THEN a ELSE b

\* The orders in which the rows at the given positions of a table can come
\* out of ORDER BY created_at: rows with equal created_at in any order.
\* Each order is built from its first row on.
RECURSIVE OrderByCreatedAt(_, _, _)
OrderByCreatedAt(table, rows, descending) ==
    IF rows = {} THEN { <<>> }
    ELSE UNION { { <<k>> \o o : o \in OrderByCreatedAt(table, rows \ {k}, descending) } :
                 k \in { r \in rows :
                           \A q \in rows :
                              IF descending
                              THEN table[r].created_at >= table[q].created_at
                              ELSE table[r].created_at <= table[q].created_at } }

OrderByCreatedAtAsc(table, rows) == OrderByCreatedAt(table, rows, FALSE)

OrderByCreatedAtDesc(table, rows) == OrderByCreatedAt(table, rows, TRUE)

\* SELECT * FROM table WHERE telegram_id = ? ORDER BY created_at DESC LIMIT ?
\* : the results the query can give
SelectRecent(table, telegram_id, limit) ==
    LET rows == { k \in 1..Len(table) : table[k].telegram_id = telegram_id }
    IN  { [k \in 1..Min(limit, Cardinality(rows)) |-> table[o[k]]] :
            o \in OrderByCreatedAtDesc(table, rows) }

get_user_predictions_all_users(telegram_id, limit, ok) ==
    IF ~ok THEN { <<>> }
    ELSE { [k \in 1..Min(limit, Len(predictions)) |-> predictions[o[k]]] :
             o \in OrderByCreatedAtDesc(predictions, 1..Len(predictions)) }

\* get_user_predictions: the lists the call can return
get_user_predictions(telegram_id, limit, ok) ==
    IF ~ok THEN { <<>> } ELSE SelectRecent(predictions, telegram_id, limit)

\* get_user_value_bets: the lists the call can return
get_user_value_bets(telegram_id, limit, ok) ==
    IF ~ok THEN { <<>> } ELSE SelectRecent(value_bets, telegram_id, limit)

\* The default limits of get_user_predictions and get_user_value_bets
DefaultPredictionsLimit == 20
DefaultValueBetsLimit == 10

(***************************************************************************)
(* The handlers (bot.py:639-1347), each behind access_control.             *)
(***************************************************************************)
\* No update is being answered
NoUpdate ==
    [user_id |-> 0, kind |-> "none", token |-> FALSE, was_allowed |-> FALSE,
     outcome |-> "none", calls |-> {}, reply |-> [type |-> "nothing"]]

\* The update is a "/start <invite code>" message
PresentsToken(update) ==
    /\ update.kind = "message"
    /\ Len(update.text) > 1
    /\ update.text[1] = "/start"
    /\ update.text[2] = InviteCode

\* What the model records of the handling of an update
Handled(update, outcome, calls, reply) ==
    [user_id |-> update.user_id,
     kind |-> update.kind,
     token |-> PresentsToken(update),
     was_allowed |-> is_user_allowed(update.user_id),
     outcome |-> outcome,
     calls |-> calls,
     reply |-> reply]

\* access_control.wrapper when it does not call the handler (bot.py:595-625)
wrapper_returns(update) ==
    LET branch == access_control(update) IN
    /\ branch # "call"
    /\ allowed_users' = IF branch = "invite" THEN add_user(update.user_id) ELSE allowed_users
    /\ granted' = IF branch = "invite" THEN granted \cup {update.user_id} ELSE granted
    /\ denied' = IF branch = "deny" THEN denied \cup {update.user_id} ELSE denied
    /\ last' = Handled(update, branch, {},
                  [type |-> IF branch = "invite" THEN "Invitation accepted"
                            ELSE IF branch = "deny" THEN "Access Restricted"
                            ELSE "nothing"])
    /\ UNCHANGED <<INVITE_ONLY, ADMIN_USER_ID, users, predictions, value_bets, clock, ret,
                   appended>>

\* access_control.wrapper when it calls the handler (bot.py:627): the gate's
\* own state stays as it is
wrapper_calls(update) ==
    /\ access_control(update) = "call"
    /\ UNCHANGED <<INVITE_ONLY, ADMIN_USER_ID, allowed_users, granted, denied, clock, ret,
                   appended>>

\* start_command (bot.py:640-697)
start_command(update) ==
    /\ users' \in { get_or_create_user(update.user_id, update.from_user.username,
                        update.from_user.first_name, update.from_user.last_name, ok) :
                    ok \in BOOLEAN }
    /\ UNCHANGED <<predictions, value_bets>>
    /\ last' = Handled(update, "call", {"get_or_create_user"}, [type |-> "menu"])

\* The arguments quick_predict_command passes to save_prediction (bot.py:724-736)
prediction_fields(home, away, league, analysis) ==
    [home_team |-> home,
     away_team |-> away,
     league |-> league,
     predicted_result |-> analysis.prediction,
     home_prob |-> analysis.probabilities.home,
     draw_prob |-> analysis.probabilities.draw,
     away_prob |-> analysis.probabilities.away,
     confidence |-> analysis.confidence,
     expected_home_goals |-> analysis.goals.home,
     expected_away_goals |-> analysis.goals.away]

\* The arguments quick_predict_command passes to save_value_bet (bot.py:740-751);
\* confidence = edge / 10
value_bet_fields(home, away, league, analysis) ==
    [match |-> <<home, "vs", away>>,
     league |-> league,
     selection |-> analysis.value_bet.selection,
     bet_type |-> analysis.value_bet.market,
     odds |-> analysis.value_bet.odds,
     probability |-> analysis.confidence,
     edge |-> analysis.value_bet.edge,
     confidence |-> Frac(analysis.value_bet.edge, 100),
     recommended_stake |-> analysis.value_bet.stake]

quick_predict_run_always_bet(telegram_id, home, away, league, analysis, ok_prediction, ok_value_bet) ==
    [analysis |-> analysis,
     predictions |-> save_prediction(telegram_id,
                         prediction_fields(home, away, league, analysis), ok_prediction),
     value_bets |-> save_value_bet(telegram_id,
                        value_bet_fields(home, away, league, analysis), ok_value_bet),
     calls |-> {"analyze_match", "save_prediction", "save_value_bet"},
     save_note |-> "Saved to your history"]

\* What quick_predict_command's body does with the analysis, for given
\* backend behaviour (bot.py:714-758): the analysis, the two tables after
\* the saves, the calls made and the note of the reply.  Neither save raises,
\* so the except branch (bot.py:756-758) is never taken.
quick_predict_run(telegram_id, home, away, league, analysis, ok_prediction, ok_value_bet) ==
    LET significant == analysis.value_bet.edge > 30
    IN  [analysis |-> analysis,
         predictions |-> save_prediction(telegram_id,
                             prediction_fields(home, away, league, analysis), ok_prediction),
         value_bets |-> IF significant
                        THEN save_value_bet(telegram_id,
                                 value_bet_fields(home, away, league, analysis), ok_value_bet)
                        ELSE value_bets,
         calls |-> {"analyze_match", "save_prediction"}
                       \cup (IF significant THEN {"save_value_bet"} ELSE {}),
         save_note |-> "Saved to your history"]

\* quick_predict_command (bot.py:700-790); args = context.args
quick_predict_command(update) ==
    LET args == Tail(update.text) IN
    IF Len(args) < 2
    THEN /\ UNCHANGED <<users, predictions, value_bets>>
         /\ last' = Handled(update, "call", {}, [type |-> "usage"])
    ELSE /\ Len(predictions) < MaxPreds
         /\ Len(value_bets) < MaxPreds
         /\ \E run \in { quick_predict_run(update.user_id, args[1], args[2],
                             IF Len(args) > 2 THEN args[3] ELSE "Quick Prediction",
                             analyze_match(args[1], args[2],
                                 IF Len(args) > 2 THEN args[3] ELSE "Quick Prediction", rnd),
                             ok_prediction, ok_value_bet) :
                           rnd \in Draws, ok_prediction \in BOOLEAN,
                           ok_value_bet \in BOOLEAN } :
                /\ predictions' = run.predictions
                /\ value_bets' = run.value_bets
                /\ UNCHANGED users
                /\ last' = Handled(update, "call", run.calls,
                               [type |-> "prediction", analysis |-> run.analysis,
                                save_note |-> run.save_note])

\* max(leagues.items(), key=lambda x: x[1])[0] (bot.py:831-841): the league
\* counted most often, the one met first in the list among equals
fav_league(predictions_list) ==
    LET n == Len(predictions_list)
        leagues == { predictions_list[k].league : k \in 1..n }
        count(l) == Cardinality({ k \in 1..n : predictions_list[k].league = l })
        first(l) == CHOOSE k \in 1..n :
                        /\ predictions_list[k].league = l
                        /\ \A j \in 1..(k - 1) : predictions_list[j].league # l
    IN  IF n = 0 THEN "None"
        ELSE CHOOSE l \in leagues :
                \A m \in leagues :
                    \/ count(l) > count(m)
                    \/ count(l) = count(m) /\ first(l) <= first(m)

\* The user level (bot.py:858-872)
user_level(total_predictions) ==
    IF total_predictions > 100 THEN "Master"
    ELSE IF total_predictions > 50 THEN "Expert"
    ELSE IF total_predictions > 20 THEN "Pro"
    ELSE IF total_predictions > 5 THEN "Intermediate"
    ELSE "Beginner"

\* The statistics mystats_command derives from the two lists (bot.py:817-872);
\* avg_confidence and avg_edge in tenths
user_statistics(predictions_list, value_bets_list, tie_up) ==
    LET total_predictions == Len(predictions_list)
        total_value_bets == Len(value_bets_list)
        fav == fav_league(predictions_list)
    IN  [type |-> "stats",
         total_predictions |-> total_predictions,
         total_value_bets |-> total_value_bets,
         correct_predictions |->
             IF total_predictions > 0
             THEN round(Frac(total_predictions * 65, 100), 0, tie_up) ELSE 0,
         accuracy |-> IF total_predictions > 0 THEN 65 ELSE 0,
         avg_confidence |-> IF total_predictions > 0 THEN 725 ELSE 0,
         fav_league |-> fav,
         fav_league_count |->
             Cardinality({ k \in 1..total_predictions : predictions_list[k].league = fav }),
         profitable_bets |->
             Cardinality({ k \in 1..total_value_bets : value_bets_list[k].edge > 0 }),
         avg_edge |->
             IF total_value_bets > 0
             THEN round(Frac(sum([k \in 1..total_value_bets |-> value_bets_list[k].edge]),
                             10 * total_value_bets), 1, tie_up)
             ELSE 0,
         user_level |-> user_level(total_predictions)]

\* mystats_command (bot.py:793-939)
mystats_command(update) ==
    /\ users' \in { get_or_create_user(update.user_id, update.from_user.username,
                        update.from_user.first_name, update.from_user.last_name, ok) :
                    ok \in BOOLEAN }
    /\ UNCHANGED <<predictions, value_bets>>
    /\ \E reply \in
           { user_statistics(predictions_list, value_bets_list, tie_up) :
               predictions_list \in UNION { get_user_predictions(update.user_id,
                                               DefaultPredictionsLimit, ok) : ok \in BOOLEAN },
               value_bets_list \in UNION { get_user_value_bets(update.user_id,
                                              DefaultValueBetsLimit, ok) : ok \in BOOLEAN },
               tie_up \in BOOLEAN } :
           last' = Handled(update, "call",
                       {"get_or_create_user", "get_user_predictions", "get_user_value_bets"},
                       reply)

\* todays_matches_command, standings_command, value_bets_command and
\* help_command (bot.py:943-1073): a reply built from DataManager's fixed
\* lists, no store access
static_command(update) ==
    /\ UNCHANGED <<users, predictions, value_bets>>
    /\ last' = Handled(update, "call", {}, [type |-> "text"])

\* data.split("_") of the callback data the model sends
split_data(data) ==
    IF data = "analyze_Inter_Milan" THEN <<"analyze", "Inter", "Milan">>
    ELSE IF data = "standings_SA" THEN <<"standings", "SA">>
    ELSE <<data>>

\* The league callback_handler looks up in todays_matches (bot.py:1277-1281)
todays_league(home, away) ==
    IF home = "Inter" /\ away = "Milan" THEN "Serie A" ELSE "Unknown"

\* callback_handler (bot.py:1076-1347)
callback_handler(update) ==
    LET data == update.data
        parts == split_data(data)
    IN  IF data = "user_stats" THEN mystats_command(update)
        ELSE IF data = "back_to_menu" THEN start_command(update)
        ELSE IF parts[1] = "analyze" /\ Len(parts) >= 3
        THEN /\ UNCHANGED <<users, predictions, value_bets>>
             /\ \E analysis \in { analyze_match(parts[2], parts[3],
                                      todays_league(parts[2], parts[3]), rnd) :
                                    rnd \in Draws } :
                    last' = Handled(update, "call", {"analyze_match"},
                                [type |-> "analysis", analysis |-> analysis])
        ELSE /\ UNCHANGED <<users, predictions, value_bets>>
             /\ last' = Handled(update, "call", {}, [type |-> "text"])

\* db_manager.cursor with no result set: after conn.cursor() (bot.py:34) and
\* after an INSERT or UPDATE
NoResult == [description |-> None, rows |-> <<>>]

\* The bot thread outside any DatabaseManager call
BotIdle == [op |-> "none", pc |-> "idle", telegram_id |-> 0, row |-> <<>>, result |-> <<>>]

\* The web-server thread outside any /health request
WebIdle == [pc |-> "idle", status |-> 0]

(***************************************************************************)
(* The bot: one step per update the dispatcher hands to a handler          *)
(* (bot.py:1375-1384), the dispatcher's turning to the next update once    *)
(* the handler has returned (run_polling, bot.py:1395), and the passing of *)
(* time.                                                                   *)
(***************************************************************************)
NoCall == [op |-> "none"]

Idle == last = NoUpdate /\ ret = NoCall

StartCommand ==
    /\ Idle
    /\ \E update \in Messages({"/start"}) :
        IF access_control(update) = "call"
        THEN wrapper_calls(update) /\ start_command(update)
        ELSE wrapper_returns(update)
    /\ UNCHANGED <<cursor, bot, web>>

QuickPredictCommand ==
    /\ Idle
    /\ \E update \in Messages({"/predict"}) :
        IF access_control(update) = "call"
        THEN wrapper_calls(update) /\ quick_predict_command(update)
        ELSE wrapper_returns(update)
    /\ UNCHANGED <<cursor, bot, web>>

MyStatsCommand ==
    /\ Idle
    /\ \E update \in Messages({"/mystats"}) :
        IF access_control(update) = "call"
        THEN wrapper_calls(update) /\ mystats_command(update)
        ELSE wrapper_returns(update)
    /\ UNCHANGED <<cursor, bot, web>>

StaticCommand ==
    /\ Idle
    /\ \E update \in Messages({"/matches", "/standings", "/value", "/help"}) :
        IF access_control(update) = "call"
        THEN wrapper_calls(update) /\ static_command(update)
        ELSE wrapper_returns(update)
    /\ UNCHANGED <<cursor, bot, web>>

CallbackQuery ==
    /\ Idle
    /\ \E update \in CallbackQueries :
        IF access_control(update) = "call"
        THEN wrapper_calls(update) /\ callback_handler(update)
        ELSE wrapper_returns(update)
    /\ UNCHANGED <<cursor, bot, web>>

\* An update that is neither a message nor a callback query (an edited
\* command message): the wrapper returns at once (bot.py:601-602)
OtherUpdate ==
    /\ Idle
    /\ \E update \in Others : wrapper_returns(update)
    /\ UNCHANGED <<cursor, bot, web>>

\* The handler, or the DatabaseManager method, has returned
Returned ==
    /\ ~Idle
    /\ last' = NoUpdate
    /\ ret' = NoCall
    /\ UNCHANGED <<INVITE_ONLY, ADMIN_USER_ID, allowed_users, users, predictions,
                   value_bets, clock, granted, denied, appended>>
    /\ UNCHANGED <<cursor, bot, web>>

\* Time passes.  Only the order of the recorded instants is observable, so
\* the clock moves on once the present instant has been recorded.
Tick ==
    /\ Idle
    /\ clock < MaxTime
    /\ \/ \E k \in 1..Len(predictions) : predictions[k].created_at = clock
       \/ \E k \in 1..Len(value_bets) : value_bets[k].created_at = clock
    /\ clock' = clock + 1
    /\ UNCHANGED <<INVITE_ONLY, ADMIN_USER_ID, allowed_users, users, predictions,
                   value_bets, granted, denied, last, ret, appended>>
    /\ UNCHANGED <<cursor, bot, web>>

Init ==
    /\ INVITE_ONLY \in BOOLEAN
    /\ ADMIN_USER_ID \in AdminConfigs
    /\ allowed_users = SimpleUserStorage_init(ADMIN_USER_ID)
    /\ users = <<>>
    /\ predictions = <<>>
    /\ value_bets = <<>>
    /\ clock = 0
    /\ granted = {}
    /\ denied = {}
    /\ last = NoUpdate
    /\ ret = NoCall
    /\ appended = 0
    /\ cursor = NoResult
    /\ bot = BotIdle
    /\ web = WebIdle

Next ==
    \/ StartCommand
    \/ QuickPredictCommand
    \/ MyStatsCommand
    \/ StaticCommand
    \/ CallbackQuery
    \/ OtherUpdate
    \/ Returned
    \/ Tick

Spec == Init /\ [][Next]_vars

(***************************************************************************)
(* The DatabaseManager on its own (bot.py:20-336): one step per call of    *)
(* one of its methods, with any arguments, succeeding or failing in the    *)
(* backend (each method catches the exception and returns its fallback).   *)
(***************************************************************************)
Profiles == { ProfileOf(i) : i \in Ids }

\* Arguments for save_prediction and save_value_bet: those an analysis gives
SampleAnalysis ==
    analyze_match("Inter", "Milan", "SerieA", CHOOSE rnd \in Draws : rnd.tie_up)

SamplePredictions == { prediction_fields("Inter", "Milan", "SerieA", SampleAnalysis) }

SampleValueBets == { value_bet_fields("Inter", "Milan", "SerieA", SampleAnalysis) }

\* The limits asked for: small ones, and the default of the method called
Limits == {1, 2}

GetOrCreateUser ==
    /\ Idle
    /\ \E telegram_id \in Ids, p \in Profiles, ok \in BOOLEAN :
        /\ users' = get_or_create_user(telegram_id, p.username, p.first_name, p.last_name, ok)
        /\ ret' = [op |-> "get_or_create_user", ok |-> ok, telegram_id |-> telegram_id]
    /\ appended' = 0
    /\ UNCHANGED <<INVITE_ONLY, ADMIN_USER_ID, allowed_users, predictions, value_bets,
                   clock, granted, denied, last>>
    /\ UNCHANGED <<cursor, bot, web>>

SavePrediction ==
    /\ Idle
    /\ Len(predictions) + Len(value_bets) < MaxRows
    /\ \E telegram_id \in Ids, fields \in SamplePredictions, ok \in BOOLEAN :
        /\ predictions' = save_prediction(telegram_id, fields, ok)
        /\ ret' = [op |-> "save_prediction", ok |-> ok, telegram_id |-> telegram_id,
                   id |-> save_prediction_id(ok)]
        /\ appended' = save_prediction_id(ok)
    /\ UNCHANGED <<INVITE_ONLY, ADMIN_USER_ID, allowed_users, users, value_bets,
                   clock, granted, denied, last>>
    /\ UNCHANGED <<cursor, bot, web>>

SaveValueBet ==
    /\ Idle
    /\ Len(predictions) + Len(value_bets) < MaxRows
    /\ \E telegram_id \in Ids, fields \in SampleValueBets, ok \in BOOLEAN :
        /\ value_bets' = save_value_bet(telegram_id, fields, ok)
        /\ ret' = [op |-> "save_value_bet", ok |-> ok, telegram_id |-> telegram_id]
    /\ appended' = 0
    /\ UNCHANGED <<INVITE_ONLY, ADMIN_USER_ID, allowed_users, users, predictions,
                   clock, granted, denied, last>>
    /\ UNCHANGED <<cursor, bot, web>>

GetUserPredictions ==
    /\ Idle
    /\ \E telegram_id \in Ids, limit \in Limits \cup {DefaultPredictionsLimit}, ok \in BOOLEAN :
        \E rows \in get_user_predictions(telegram_id, limit, ok) :
            ret' = [op |-> "get_user_predictions", ok |-> ok, telegram_id |-> telegram_id,
                    limit |-> limit, rows |-> rows]
    /\ UNCHANGED <<INVITE_ONLY, ADMIN_USER_ID, allowed_users, users, predictions,
                   value_bets, clock, granted, denied, last, appended>>
    /\ UNCHANGED <<cursor, bot, web>>

GetUserValueBets ==
    /\ Idle
    /\ \E telegram_id \in Ids, limit \in Limits \cup {DefaultValueBetsLimit}, ok \in BOOLEAN :
        \E rows \in get_user_value_bets(telegram_id, limit, ok) :
            ret' = [op |-> "get_user_value_bets", ok |-> ok, telegram_id |-> telegram_id,
                    limit |-> limit, rows |-> rows]
    /\ UNCHANGED <<INVITE_ONLY, ADMIN_USER_ID, allowed_users, users, predictions,
                   value_bets, clock, granted, denied, last, appended>>
    /\ UNCHANGED <<cursor, bot, web>>

StoreNext ==
    \/ GetOrCreateUser
    \/ SavePrediction
    \/ SaveValueBet
    \/ GetUserPredictions
    \/ GetUserValueBets
    \/ Returned
    \/ Tick

\* The store does not depend on the gate: one configuration of it
StoreInit ==
    /\ Init
    /\ ~INVITE_ONLY
    /\ ADMIN_USER_ID = << <<>> >>

StoreSpec == StoreInit /\ [][StoreNext]_vars

(***************************************************************************)
(* The SQLAlchemy DatabaseManager (database.py), the store's second        *)
(* implementation, on its own: one step per call of one of its methods.    *)
(* A user row is [id, telegram_id, username, first_name, last_name], a     *)
(* prediction row [id, user_id, league, confidence, created_at]; the       *)
(* outcome of a call is "return" or "raise".                               *)
(***************************************************************************)
\* a or b, on values of which None is the falsy one
or(a, b) == IF a # None THEN a ELSE b

\* get_or_create_user (database.py:22-50): the users table after the call
orm_users(telegram_id, username, first_name, last_name, ok) ==
    IF ~ok THEN users
    ELSE IF telegram_id \in DOMAIN users
         THEN [users EXCEPT ![telegram_id] =
                  [@ EXCEPT !.username = or(username, @),
                            !.first_name = or(first_name, @),
                            !.last_name = or(last_name, @)]]
         ELSE users @@ (telegram_id :>
                  [id |-> Cardinality(DOMAIN users) + 1, telegram_id |-> telegram_id,
                   username |-> username, first_name |-> first_name,
                   last_name |-> last_name])

\* How a method whose except branch re-raises ends (database.py:47-50, 75-78)
orm_outcome(ok) == IF ok THEN "return" ELSE "raise"

\* save_prediction (database.py:52-78): the predictions table after the
\* call, given the users table its get_or_create_user left
orm_predictions(users_after, telegram_id, fields, ok_user, ok) ==
    IF ~ok_user \/ ~ok THEN predictions
    ELSE Append(predictions,
            [id |-> Len(predictions) + 1,
             user_id |-> users_after[telegram_id].id,
             league |-> fields.league,
             predicted_result |-> fields.predicted_result,
             confidence |-> fields.confidence,
             created_at |-> clock])

\* get_user_stats (database.py:80-119): the dictionaries the call can
\* return, given the users table its get_or_create_user left
orm_user_stats(users_after, telegram_id, ok_user, ok) ==
    IF ~ok_user \/ ~ok
    THEN { [total_predictions |-> 0, correct_predictions |-> 0, accuracy |-> 0,
            recent_predictions |-> <<>>, user |-> None] }
    ELSE LET own == { k \in 1..Len(predictions) :
                        predictions[k].user_id = users_after[telegram_id].id }
         IN  { [total_predictions |-> Cardinality(own),
                correct_predictions |-> 0,
                accuracy |-> 0,
                recent_predictions |-> [k \in 1..Min(5, Cardinality(own)) |-> predictions[o[k]].id],
                user |-> users_after[telegram_id].id] :
                 o \in OrderByCreatedAtDesc(predictions, own) }

OrmGetOrCreateUser ==
    /\ Idle
    /\ \E telegram_id \in Ids, p \in Profiles, ok \in BOOLEAN :
        /\ users' = orm_users(telegram_id, p.username, p.first_name, p.last_name, ok)
        /\ ret' = [op |-> "get_or_create_user", outcome |-> orm_outcome(ok),
                   telegram_id |-> telegram_id, username |-> p.username,
                   first_name |-> p.first_name, last_name |-> p.last_name]
    /\ UNCHANGED <<INVITE_ONLY, ADMIN_USER_ID, allowed_users, predictions, value_bets,
                   clock, granted, denied, last, appended>>
    /\ UNCHANGED <<cursor, bot, web>>

OrmSavePrediction ==
    /\ Idle
    /\ Len(predictions) < MaxRows
    /\ \E telegram_id \in Ids, fields \in SamplePredictions, ok_user \in BOOLEAN,
          ok \in BOOLEAN :
        /\ users' = orm_users(telegram_id, None, None, None, ok_user)
        /\ predictions' = orm_predictions(users', telegram_id, fields, ok_user, ok)
        /\ ret' = [op |-> "save_prediction", outcome |-> orm_outcome(ok_user /\ ok),
                   telegram_id |-> telegram_id]
    /\ UNCHANGED <<INVITE_ONLY, ADMIN_USER_ID, allowed_users, value_bets,
                   clock, granted, denied, last, appended>>
    /\ UNCHANGED <<cursor, bot, web>>

OrmGetUserStats ==
    /\ Idle
    /\ \E telegram_id \in Ids, ok_user \in BOOLEAN, ok \in BOOLEAN :
        /\ users' = orm_users(telegram_id, None, None, None, ok_user)
        /\ \E stats \in orm_user_stats(users', telegram_id, ok_user, ok) :
              ret' = [op |-> "get_user_stats", outcome |-> "return",
                      telegram_id |-> telegram_id, stats |-> stats]
    /\ UNCHANGED <<INVITE_ONLY, ADMIN_USER_ID, allowed_users, predictions, value_bets,
                   clock, granted, denied, last, appended>>
    /\ UNCHANGED <<cursor, bot, web>>

OrmNext ==
    \/ OrmGetOrCreateUser
    \/ OrmSavePrediction
    \/ OrmGetUserStats
    \/ Returned
    \/ Tick

OrmSpec == StoreInit /\ [][OrmNext]_vars

\* ---------------------------------------------------------------------
\* /mystats over the histories /predict leaves behind
\* ---------------------------------------------------------------------

\* The longest history: one row more than get_user_predictions returns by
\* default
MaxHistory == 21

HistorySizes == {0, 1, 2, 6, MaxHistory - 1, MaxHistory}

\* The league the k-th of n saved predictions was asked for
league_at(leagues, k, n) ==
    CASE leagues = "one" -> "SerieA"
      [] leagues = "alternating" ->
            IF k % 2 = 1 THEN "SerieA" ELSE "Quick Prediction"
      [] leagues = "older" ->
            IF k = 1 \/ (n - k) % 2 = 1 THEN "SerieA" ELSE "Quick Prediction"

\* The user who asked for the k-th saved prediction
owner_at(owners, k) ==
    CASE owners = "one" -> 1
      [] owners = "both" -> IF k % 2 = 1 THEN 1 ELSE 2

\* The predictions table after n saved /predict calls, one instant apart
History(n, leagues, owners) ==
    [k \in 1..n |->
        prediction_row(k, owner_at(owners, k),
            prediction_fields("Inter", "Milan", league_at(leagues, k, n),
                analyze_match("Inter", "Milan", league_at(leagues, k, n),
                              CHOOSE rnd \in Draws : IF k % 3 = 0 THEN rnd.tie_up
                                                     ELSE ~rnd.tie_up)),
            k - 1)]

Histories ==
    { History(n, leagues, owners) :
        n \in HistorySizes, leagues \in {"one", "alternating", "older"},
        owners \in {"one", "both"} }

StatsInit ==
    /\ INVITE_ONLY = FALSE
    /\ ADMIN_USER_ID = << <<>> >>
    /\ allowed_users = SimpleUserStorage_init(ADMIN_USER_ID)
    /\ users = <<>>
    /\ predictions \in Histories
    /\ value_bets = <<>>
    /\ clock = Len(predictions)
    /\ granted = {}
    /\ denied = {}
    /\ last = NoUpdate
    /\ ret = NoCall
    /\ appended = 0
    /\ cursor = NoResult
    /\ bot = BotIdle
    /\ web = WebIdle

StatsNext ==
    \/ MyStatsCommand
    \/ Returned

StatsSpec == StatsInit /\ [][StatsNext]_vars

\* ---------------------------------------------------------------------
\* analyze_match on its own, over every pair of scores
\* ---------------------------------------------------------------------

\* The values sum(ord(c) for c in name.lower()) % 100 takes: each of them is
\* the score of some non-empty name
Scores == 0..99

\* The draws of one call with each fall of the floats at a rounding tie
AnalysisDraws ==
    { [d EXCEPT !.tie_up = t, !.tie_up_draw = u] :
        d \in Draws, t \in BOOLEAN, u \in BOOLEAN }

\* One call of data_manager.analyze_match
AnalyzeMatch ==
    /\ Idle
    /\ \E home_score \in Scores, away_score \in Scores, rnd \in AnalysisDraws :
          ret' = [op |-> "analyze_match",
                  outcome |-> "return",
                  home |-> None,
                  away |-> None,
                  home_score |-> home_score,
                  away_score |-> away_score,
                  league |-> "Unknown",
                  rnd |-> rnd,
                  result |-> analyze_scores(scores_from(home_score, away_score),
                                            "Unknown", rnd)]
    /\ UNCHANGED <<INVITE_ONLY, ADMIN_USER_ID, allowed_users, users, predictions,
                   value_bets, clock, granted, denied, last, appended>>
    /\ UNCHANGED <<cursor, bot, web>>

\* The names analyze_match is called with: two teams in two spellings, the
\* empty name and a name of one space
Names == {"Inter", "inter", "Milan", "MILAN", "", " "}

\* One call of data_manager.analyze_match with given names.  No statement
\* of analyze_match looks at the names but the two sums, and none raises.
AnalyzeNamedMatch ==
    /\ Idle
    /\ \E home \in Names, away \in Names, league \in {"Unknown", "SerieA"},
          rnd \in AnalysisDraws :
          ret' = [op |-> "analyze_match",
                  outcome |-> "return",
                  home |-> home,
                  away |-> away,
                  home_score |-> team_score(home),
                  away_score |-> team_score(away),
                  league |-> league,
                  rnd |-> rnd,
                  result |-> analyze_match(home, away, league, rnd)]
    /\ UNCHANGED <<INVITE_ONLY, ADMIN_USER_ID, allowed_users, users, predictions,
                   value_bets, clock, granted, denied, last, appended>>
    /\ UNCHANGED <<cursor, bot, web>>

AnalysisNext ==
    \/ AnalyzeNamedMatch
    \/ AnalyzeMatch

AnalysisSpec == StoreInit /\ [][AnalysisNext]_vars

\* ---------------------------------------------------------------------
\* /predict over every pair of scores
\* ---------------------------------------------------------------------

\* The draws of one call with each fall at a rounding tie of the floats the
\* odds and the edge are rounded from.  The margin of either side is at
\* each end of [0.92, 0.97] in one of them.
EdgeDraws == { [d EXCEPT !.tie_up = t] : d \in Draws, t \in BOOLEAN }

\* quick_predict_command for two names of given scores (bot.py:710-758):
\* the analysis and the saves
QuickPredictScores ==
    /\ Idle
    /\ \E home_score \in Scores, away_score \in Scores, rnd \in EdgeDraws :
          \E run \in { quick_predict_run(1, None, None, "Quick Prediction", analysis,
                           ok_prediction, ok_value_bet) :
                         analysis \in { analyze_scores(scores_from(home_score, away_score),
                                                       "Quick Prediction", rnd) },
                         ok_prediction \in BOOLEAN, ok_value_bet \in BOOLEAN } :
              /\ predictions' = run.predictions
              /\ value_bets' = run.value_bets
              /\ ret' = [op |-> "quick_predict",
                         outcome |-> "return",
                         home_score |-> home_score,
                         away_score |-> away_score,
                         rnd |-> rnd,
                         calls |-> run.calls,
                         result |-> run.analysis]
    /\ UNCHANGED <<INVITE_ONLY, ADMIN_USER_ID, allowed_users, users, clock,
                   granted, denied, last, appended>>
    /\ UNCHANGED <<cursor, bot, web>>

EdgeNext == QuickPredictScores

EdgeSpec == StoreInit /\ [][EdgeNext]_vars

\* ---------------------------------------------------------------------
\* The cursor shared by the bot thread and the web-server thread
\* (bot.py:34, 1367): each cursor.execute and cursor.fetch is one step
\* ---------------------------------------------------------------------

\* cursor.fetchone(): the next row of the result set as a list of one row,
\* the empty list for None when none is left
fetchone(c) == IF c.rows = <<>> THEN <<>> ELSE <<Head(c.rows)>>

\* The cursor after cursor.fetchone()
after_fetchone(c) == IF c.rows = <<>> THEN c ELSE [c EXCEPT !.rows = Tail(@)]

\* get_or_create_user, cursor.execute("SELECT * FROM users WHERE
\* telegram_id = ?") (bot.py:140-143)
BotSelectUser ==
    /\ bot.pc = "idle"
    /\ \E telegram_id \in Ids :
          /\ cursor' = [description |-> "users",
                        rows |-> IF telegram_id \in DOMAIN users
                                 THEN <<users[telegram_id]>> ELSE <<>>]
          /\ bot' = [BotIdle EXCEPT !.op = "get_or_create_user", !.pc = "fetchone",
                                    !.telegram_id = telegram_id]
    /\ UNCHANGED <<INVITE_ONLY, ADMIN_USER_ID, allowed_users, users, predictions,
                   value_bets, clock, granted, denied, last, ret, appended, web>>

\* get_or_create_user, user_row = self.cursor.fetchone() and the branch on
\* it (bot.py:144-150)
BotFetchUser ==
    /\ bot.pc = "fetchone"
    /\ cursor' = after_fetchone(cursor)
    /\ bot' = [bot EXCEPT !.row = fetchone(cursor),
                          !.pc = IF fetchone(cursor) # <<>> THEN "update" ELSE "insert"]
    /\ UNCHANGED <<INVITE_ONLY, ADMIN_USER_ID, allowed_users, users, predictions,
                   value_bets, clock, granted, denied, last, ret, appended, web>>

\* get_or_create_user, the UPDATE ... WHERE telegram_id = ?, the commit and
\* the return of the row fetched (bot.py:152-160).  The UPDATE changes no
\* row when there is none of that telegram_id.
BotUpdateUser ==
    /\ bot.pc = "update"
    /\ users' = IF bot.telegram_id \in DOMAIN users
                THEN get_or_create_user(bot.telegram_id,
                         ProfileOf(bot.telegram_id).username,
                         ProfileOf(bot.telegram_id).first_name,
                         ProfileOf(bot.telegram_id).last_name, TRUE)
                ELSE users
    /\ cursor' = NoResult
    /\ bot' = [bot EXCEPT !.pc = "returned", !.result = bot.row]
    /\ UNCHANGED <<INVITE_ONLY, ADMIN_USER_ID, allowed_users, predictions,
                   value_bets, clock, granted, denied, last, ret, appended, web>>

\* get_or_create_user, the INSERT, the commit and the return (bot.py:161-188).
\* The INSERT of a telegram_id that has a row fails on the UNIQUE column
\* (bot.py:47) and the except branch returns.
BotInsertUser ==
    /\ bot.pc = "insert"
    /\ users' = IF bot.telegram_id \in DOMAIN users
                THEN users
                ELSE get_or_create_user(bot.telegram_id,
                         ProfileOf(bot.telegram_id).username,
                         ProfileOf(bot.telegram_id).first_name,
                         ProfileOf(bot.telegram_id).last_name, TRUE)
    /\ cursor' = NoResult
    /\ bot' = [bot EXCEPT !.pc = "returned",
                          !.result = << [telegram_id |-> bot.telegram_id] >>]
    /\ UNCHANGED <<INVITE_ONLY, ADMIN_USER_ID, allowed_users, predictions,
                   value_bets, clock, granted, denied, last, ret, appended, web>>

\* get_user_predictions, cursor.execute("SELECT * FROM predictions WHERE
\* telegram_id = ? ORDER BY created_at DESC LIMIT ?") (bot.py:254-260)
BotSelectPredictions ==
    /\ bot.pc = "idle"
    /\ \E telegram_id \in Ids :
          /\ \E rows \in get_user_predictions(telegram_id, DefaultPredictionsLimit, TRUE) :
                cursor' = [description |-> "predictions", rows |-> rows]
          /\ bot' = [BotIdle EXCEPT !.op = "get_user_predictions", !.pc = "fetchall",
                                    !.telegram_id = telegram_id]
    /\ UNCHANGED <<INVITE_ONLY, ADMIN_USER_ID, allowed_users, users, predictions,
                   value_bets, clock, granted, denied, last, ret, appended, web>>

\* get_user_predictions, rows = self.cursor.fetchall() and the return
\* (bot.py:261-268)
BotFetchPredictions ==
    /\ bot.pc = "fetchall"
    /\ cursor' = [cursor EXCEPT !.rows = <<>>]
    /\ bot' = [bot EXCEPT !.pc = "returned", !.result = cursor.rows]
    /\ UNCHANGED <<INVITE_ONLY, ADMIN_USER_ID, allowed_users, users, predictions,
                   value_bets, clock, granted, denied, last, ret, appended, web>>

\* The DatabaseManager call returns to the handler
BotReturned ==
    /\ bot.pc = "returned"
    /\ bot' = BotIdle
    /\ UNCHANGED <<INVITE_ONLY, ADMIN_USER_ID, allowed_users, users, predictions,
                   value_bets, clock, granted, denied, last, ret, appended, cursor, web>>

\* health, db_manager.cursor.execute("SELECT 1") (bot.py:370)
WebSelectOne ==
    /\ web.pc = "idle"
    /\ cursor' = [description |-> "1", rows |-> << [one |-> 1] >>]
    /\ web' = [WebIdle EXCEPT !.pc = "fetchone"]
    /\ UNCHANGED <<INVITE_ONLY, ADMIN_USER_ID, allowed_users, users, predictions,
                   value_bets, clock, granted, denied, last, ret, appended, bot>>

\* health, result = db_manager.cursor.fetchone() and the answer
\* (bot.py:371-374): 200 when the first column of the row is 1.  The first
\* column of a predictions row is its id; that of a users row is an id the
\* model does not keep, so either answer is taken.
WebFetchOne ==
    /\ web.pc = "fetchone"
    /\ cursor' = after_fetchone(cursor)
    /\ \E status \in {200, 500} :
          /\ fetchone(cursor) = <<>> => status = 500
          /\ (fetchone(cursor) # <<>> /\ cursor.description = "1") => status = 200
          /\ (fetchone(cursor) # <<>> /\ cursor.description = "predictions")
                => (status = 200 <=> fetchone(cursor)[1].id = 1)
          /\ web' = [web EXCEPT !.pc = "returned", !.status = status]
    /\ UNCHANGED <<INVITE_ONLY, ADMIN_USER_ID, allowed_users, users, predictions,
                   value_bets, clock, granted, denied, last, ret, appended, bot>>

\* The /health request is answered
WebReturned ==
    /\ web.pc = "returned"
    /\ web' = WebIdle
    /\ UNCHANGED <<INVITE_ONLY, ADMIN_USER_ID, allowed_users, users, predictions,
                   value_bets, clock, granted, denied, last, ret, appended, cursor, bot>>

\* Three saved predictions, of user 1, user 2 and user 1, and no users row:
\* /predict saves without one
CursorInit ==
    /\ INVITE_ONLY = FALSE
    /\ ADMIN_USER_ID = << <<>> >>
    /\ allowed_users = SimpleUserStorage_init(ADMIN_USER_ID)
    /\ users = <<>>
    /\ predictions = History(3, "alternating", "both")
    /\ value_bets = <<>>
    /\ clock = Len(predictions)
    /\ granted = {}
    /\ denied = {}
    /\ last = NoUpdate
    /\ ret = NoCall
    /\ appended = 0
    /\ cursor = NoResult
    /\ bot = BotIdle
    /\ web = WebIdle

CursorNext ==
    \/ BotSelectUser
    \/ BotFetchUser
    \/ BotUpdateUser
    \/ BotInsertUser
    \/ BotSelectPredictions
    \/ BotFetchPredictions
    \/ BotReturned
    \/ WebSelectOne
    \/ WebFetchOne
    \/ WebReturned

CursorSpec == CursorInit /\ [][CursorNext]_vars

(***************************************************************************)
(* Properties.                                                             *)
(***************************************************************************)
\* The identities the administrator allowlist names: those whose decimal
\* numeral is an entry of ADMIN_USER_ID, blanks around it aside
AdminIds ==
    { i \in Ids : \E k \in 1..Len(ADMIN_USER_ID) : strip(ADMIN_USER_ID[k]) = str(i) }

\* C1: every stored prediction and every stored value bet carries the
\* telegram_id of an identity that get_or_create_user has put in the users
\* table before.  The bot does not keep this: /predict saves without an
\* upsert.
C1_AppendsReferToUpsertedIdentity ==
    /\ \A k \in 1..Len(predictions) : predictions[k].telegram_id \in DOMAIN users
    /\ \A k \in 1..Len(value_bets) : value_bets[k].telegram_id \in DOMAIN users

\* C2: analyze_match, get_or_create_user, save_prediction and save_value_bet
\* run for an update only if is_user_allowed held for its sender when the
\* update was admitted.
C2_EngineRunsOnlyForAllowed ==
    last.calls # {} => last.was_allowed

C2_Witness ==
    /\ INVITE_ONLY
    /\ last.user_id \in granted
    /\ last.calls = {"analyze_match", "save_prediction"}
    /\ denied # {}

\* C3 (amended): in gated mode, for every identity outside the administrator
\* allowlist, is_user_allowed is false as long as add_user has not been
\* performed on it and true from then on.
C3_GrantDecidesOutsideAllowlist ==
    INVITE_ONLY =>
        \A x \in Ids \ AdminIds : is_user_allowed(x) <=> x \in granted

C3_Witness ==
    /\ INVITE_ONLY
    /\ \E x, y \in Ids \ AdminIds :
          /\ x \in granted /\ is_user_allowed(x)
          /\ y \notin granted /\ ~is_user_allowed(y)

\* C3 as stated: the same for every identity, administrators included.
C3_GrantDecidesEveryIdentity ==
    INVITE_ONLY =>
        \A x \in Ids : is_user_allowed(x) <=> x \in granted

\* C4: in open mode is_user_allowed holds for every identity in every state
\* and no update is refused.
C4_OpenModeAdmitsAll ==
    ~INVITE_ONLY =>
        /\ \A x \in Ids : is_user_allowed(x)
        /\ last.outcome \notin {"deny", "invite"}
        /\ denied = {}

C4_Witness ==
    /\ ~INVITE_ONLY
    /\ last.kind = "message"
    /\ last.token
    /\ last.user_id \notin allowed_users
    /\ last.outcome = "call"
    /\ last.calls = {"get_or_create_user"}

\* C5: in gated mode no step takes an identity out of the allowed set.
C5_AllowedStaysAllowed ==
    [][INVITE_ONLY => \A x \in Ids : x \in allowed_users => x \in allowed_users']_vars

C5_Witness ==
    /\ INVITE_ONLY
    /\ last.outcome = "invite"
    /\ \E x \in allowed_users : x # last.user_id
    /\ last.user_id \in allowed_users

\* C6: in gated mode every identity the administrator allowlist names is
\* allowed in every state, without ever having presented the invite code.
C6_AdminsAlwaysAllowed ==
    INVITE_ONLY => \A i \in AdminIds : is_user_allowed(i)

C6_Witness ==
    /\ INVITE_ONLY
    /\ last.user_id \in AdminIds
    /\ last.user_id \notin granted
    /\ last.outcome = "call"
    /\ "save_prediction" \in last.calls

\* C7: in gated mode an identity outside the administrator allowlist enters
\* the allowed set only in the handling of an update it sent itself and that
\* presents the invite code.
C7_GrantOnlyByOwnToken ==
    [][INVITE_ONLY =>
          \A x \in Ids \ AdminIds :
              (x \notin allowed_users /\ x \in allowed_users')
                  => (last'.user_id = x /\ last'.token)]_vars

C7_Witness ==
    /\ INVITE_ONLY
    /\ last.outcome = "invite"
    /\ last.token
    /\ ~last.was_allowed
    /\ last.user_id \in allowed_users \ AdminIds
    /\ allowed_users # Ids

\* C8: in gated mode a message or callback query of an identity that is not
\* allowed, without the invite code, is refused and leaves the allowed set
\* and the three tables as they were; an identity refused before that sends
\* the invite code is granted.
C8_DenialChangesNothingAndIsNotFinal ==
    [][(/\ INVITE_ONLY
        /\ last = NoUpdate
        /\ last'.kind \in {"message", "callback_query"}
        /\ last'.user_id \notin allowed_users)
          => IF last'.token
             THEN last'.user_id \in denied
                      => (last'.outcome = "invite" /\ last'.user_id \in allowed_users')
             ELSE /\ last'.outcome = "deny"
                  /\ last'.calls = {}
                  /\ allowed_users' = allowed_users
                  /\ users' = users
                  /\ predictions' = predictions
                  /\ value_bets' = value_bets]_vars

C8_Witness ==
    /\ INVITE_ONLY
    /\ last.outcome = "invite"
    /\ last.user_id \in denied
    /\ last.user_id \in allowed_users
    /\ predictions # <<>>

\* C9: after a successful save_prediction for an identity, with no write to
\* the store in between, get_user_predictions of that identity with limit 1
\* returns exactly the row just saved.  The query does not keep this when an
\* earlier row of the identity has the same created_at.
C9_ListOneReturnsJustAppended ==
    (/\ ret.op = "get_user_predictions"
     /\ ret.ok
     /\ ret.limit = 1
     /\ appended # 0
     /\ predictions[appended].telegram_id = ret.telegram_id)
        => ret.rows = <<predictions[appended]>>

\* What C10 asks of a list returned for an identity from a table
IsRecentFirstList(table, telegram_id, limit, rows) ==
    LET own == { k \in 1..Len(table) : table[k].telegram_id = telegram_id }
        returned == { k \in own : \E j \in 1..Len(rows) : rows[j] = table[k] }
    IN  /\ Len(rows) <= limit
        /\ \A j \in 1..Len(rows) : rows[j].telegram_id = telegram_id
        /\ \A j \in 1..Len(rows) : \E k \in own : rows[j] = table[k]
        /\ \A i, j \in 1..Len(rows) : i < j => rows[i] # rows[j]
        /\ \A i, j \in 1..Len(rows) : i < j => rows[i].created_at >= rows[j].created_at
        /\ Len(rows) = Min(limit, Cardinality(own))
        /\ \A k \in returned, m \in own \ returned :
              table[k].created_at >= table[m].created_at

\* C10: the list get_user_predictions or get_user_value_bets returns from an
\* answered query has at most limit rows, all of the identity asked for, in
\* non-increasing created_at order, and no row of the identity left out is
\* more recent than a row returned.
C10_ListsAreBoundedOwnRecentFirst ==
    /\ (ret.op = "get_user_predictions" /\ ret.ok)
          => IsRecentFirstList(predictions, ret.telegram_id, ret.limit, ret.rows)
    /\ (ret.op = "get_user_value_bets" /\ ret.ok)
          => IsRecentFirstList(value_bets, ret.telegram_id, ret.limit, ret.rows)

C10_Witness ==
    /\ ret.op = "get_user_predictions"
    /\ ret.ok
    /\ ret.limit = 1
    /\ Len(ret.rows) = 1
    /\ Len(predictions) = 2
    /\ predictions[1].telegram_id = ret.telegram_id
    /\ predictions[2].telegram_id = ret.telegram_id
    /\ predictions[1].created_at < predictions[2].created_at
    /\ \E k \in 1..Len(value_bets) : value_bets[k].telegram_id # ret.telegram_id

\* C11: every stored value bet has an edge above 3, and the handling of a
\* /predict whose analysis has an edge of 3 or less calls save_prediction,
\* does not call save_value_bet and leaves the value_bets table as it was.
C11_ValueBetOnlyAboveThreshold ==
    [][/\ \A k \in 1..Len(value_bets') : value_bets'[k].edge > 30
       /\ (/\ last = NoUpdate
           /\ last'.reply.type = "prediction"
           /\ last'.reply.analysis.value_bet.edge <= 30)
             => /\ "save_prediction" \in last'.calls
                /\ "save_value_bet" \notin last'.calls
                /\ Len(predictions') >= Len(predictions)
                /\ value_bets' = value_bets]_vars

C11_Witness ==
    /\ last.reply.type = "prediction"
    /\ last.reply.analysis.value_bet.edge <= 30
    /\ Len(predictions) = 1
    /\ predictions[1].telegram_id = last.user_id
    /\ value_bets = <<>>

\* C12: when save_prediction fails in the handling of a /predict, so that
\* no prediction is stored, the reply still carries the analysis and its
\* note says the history was not saved.  The handler does not keep this:
\* save_prediction swallows the failure and the note says "Saved".
C12_FailedSaveIsReportedNotSaved ==
    [][(/\ last = NoUpdate
        /\ last'.reply.type = "prediction"
        /\ predictions' = predictions)
          => /\ last'.reply.analysis \in
                    { analyze_match("Inter", "Milan", league, rnd) :
                        league \in {"Quick Prediction", "SerieA"}, rnd \in Draws }
             /\ last'.reply.save_note = "History not saved"]_vars

\* C13: no call of a store method ends with the backend's exception raised
\* to the caller.  The SQLAlchemy implementation does not keep this: its
\* get_or_create_user and save_prediction roll back and re-raise.
C13_NoBackendExceptionEscapes ==
    ret.op # "none" => ret.outcome # "raise"

\* C14: after a call of get_or_create_user that returns, the users table
\* holds for the identity the username, first name and last name the call
\* was given.  The SQLAlchemy implementation does not keep this for an
\* argument that is None: the stored value stays.
C14_UpsertStoresTheArguments ==
    (ret.op = "get_or_create_user" /\ ret.outcome = "return")
        => /\ ret.telegram_id \in DOMAIN users
           /\ users[ret.telegram_id].username = ret.username
           /\ users[ret.telegram_id].first_name = ret.first_name
           /\ users[ret.telegram_id].last_name = ret.last_name

\* The positions of the predictions stored for a user
OwnRows(telegram_id) ==
    { k \in 1..Len(predictions) : predictions[k].telegram_id = telegram_id }

\* The leagues of the predictions stored for a user
OwnLeagues(telegram_id) ==
    { predictions[k].league : k \in OwnRows(telegram_id) }

\* How many predictions of a league are stored for a user
OwnCount(telegram_id, league) ==
    Cardinality({ k \in OwnRows(telegram_id) : predictions[k].league = league })

\* The instant of the most recent prediction of a league stored for a user
OwnNewest(telegram_id, league) ==
    CHOOSE t \in { predictions[k].created_at : k \in OwnRows(telegram_id) } :
        /\ \E k \in OwnRows(telegram_id) :
              predictions[k].league = league /\ predictions[k].created_at = t
        /\ \A k \in OwnRows(telegram_id) :
              predictions[k].league = league => predictions[k].created_at <= t

\* C15: the total a statistics reply reports is the number of predictions
\* stored for the user, and the level is the tier of that number
\* (Master above 100, Expert above 50, Pro above 20, Intermediate above 5,
\* Beginner otherwise).  Stated for replies that report a positive total.
C15_TotalIsStoredCount ==
    (last.reply.type = "stats" /\ last.reply.total_predictions > 0)
        => /\ last.reply.total_predictions = Cardinality(OwnRows(last.user_id))
           /\ last.reply.user_level = user_level(Cardinality(OwnRows(last.user_id)))

\* C16: the average confidence a statistics reply reports is the mean of the
\* confidences stored for the user, to the one decimal shown.  Stated for
\* replies that report a positive total.
C16_AverageIsMeanOfStored ==
    (last.reply.type = "stats" /\ last.reply.total_predictions > 0)
        => 2 * Abs(last.reply.avg_confidence * Cardinality(OwnRows(last.user_id))
                   - sum([k \in 1..Len(predictions) |->
                            IF k \in OwnRows(last.user_id)
                            THEN predictions[k].confidence ELSE 0]))
             <= Cardinality(OwnRows(last.user_id))

\* C17: the favourite league a statistics reply reports is a league with the
\* highest count among the predictions stored for the user, and among
\* leagues of equal count the one met first going from the most recent
\* prediction back.  Stated for replies that report a positive total.
C17_FavouriteIsMostFrequentStored ==
    (last.reply.type = "stats" /\ last.reply.total_predictions > 0)
        => /\ last.reply.fav_league \in OwnLeagues(last.user_id)
           /\ \A m \in OwnLeagues(last.user_id) :
                \/ OwnCount(last.user_id, last.reply.fav_league) > OwnCount(last.user_id, m)
                \/ /\ OwnCount(last.user_id, last.reply.fav_league) = OwnCount(last.user_id, m)
                   /\ OwnNewest(last.user_id, last.reply.fav_league)
                        >= OwnNewest(last.user_id, m)

\* C18: a statistics reply for a user with no stored prediction reports a
\* total of 0, an average confidence of 0 and the level Beginner.
C18_NoHistoryIsZeroBeginner ==
    (last.reply.type = "stats" /\ OwnRows(last.user_id) = {})
        => /\ last.reply.total_predictions = 0
           /\ last.reply.avg_confidence = 0
           /\ last.reply.user_level = "Beginner"

\* A user without history asks for statistics while the table holds the
\* longest history of the other user
C18_Witness ==
    /\ last.reply.type = "stats"
    /\ OwnRows(last.user_id) = {}
    /\ Len(predictions) = MaxHistory
    /\ last.reply.total_predictions = 0
    /\ last.reply.user_level = "Beginner"

\* C19: answering /mystats leaves the users, the predictions and the value
\* bets as they were.
C19_StatisticsAreReadOnly ==
    [][(last = NoUpdate /\ last'.reply.type = "stats")
          => /\ users' = users
             /\ predictions' = predictions
             /\ value_bets' = value_bets]_vars

\* C20: the three probabilities analyze_match returns, each rounded to one
\* decimal, sum to 100 within 0.1, whatever the two names.
C20_ProbabilitiesSumToHundred ==
    ret.op = "analyze_match"
        => /\ ret.result.probabilities.home + ret.result.probabilities.draw
                + ret.result.probabilities.away >= 999
           /\ ret.result.probabilities.home + ret.result.probabilities.draw
                + ret.result.probabilities.away <= 1001

\* A call whose rounded probabilities sum to 100.1, one of them negative
C20_Witness ==
    /\ ret.op = "analyze_match"
    /\ ret.result.probabilities.home + ret.result.probabilities.draw
         + ret.result.probabilities.away = 1001
    /\ ret.result.probabilities.home < 0

\* str.strip() of the name leaves nothing
IsBlank(name) == \A k \in 1..Len(CodePoints(name)) : CodePoints(name)[k] \in {32, 9, 10}

\* C21: a call of analyze_match with an empty or whitespace-only home or
\* away name fails (InvalidInput) and returns no result.
C21_BlankNameIsRejected ==
    (ret.op = "analyze_match" /\ ret.home # None
        /\ (IsBlank(ret.home) \/ IsBlank(ret.away)))
        => ret.outcome = "raise"

\* The same name up to the case of its letters
SameUpToCase(name, other) ==
    /\ Len(CodePoints(name)) = Len(CodePoints(other))
    /\ \A k \in 1..Len(CodePoints(name)) :
          \/ CodePoints(name)[k] = CodePoints(other)[k]
          \/ /\ CodePoints(name)[k] \in 65..90
             /\ CodePoints(other)[k] = CodePoints(name)[k] + 32
          \/ /\ CodePoints(other)[k] \in 65..90
             /\ CodePoints(name)[k] = CodePoints(other)[k] + 32

SameFloats(rnd, other) ==
    rnd.tie_up = other.tie_up /\ rnd.tie_up_draw = other.tie_up_draw

\* C23: two calls of analyze_match with the same home, away and league
\* return the same probabilities, prediction and confidence whatever the
\* jitter and margin draws, and the same result in every field when the
\* draws are the same.
C23_OnlyTheDrawsVary ==
    (ret.op = "analyze_match" /\ ret.home # None)
        => \A rnd \in AnalysisDraws :
              SameFloats(rnd, ret.rnd)
                  => /\ analyze_match(ret.home, ret.away, ret.league, rnd).probabilities
                          = ret.result.probabilities
                     /\ analyze_match(ret.home, ret.away, ret.league, rnd).prediction
                          = ret.result.prediction
                     /\ analyze_match(ret.home, ret.away, ret.league, rnd).confidence
                          = ret.result.confidence
                     /\ rnd = ret.rnd
                          => analyze_match(ret.home, ret.away, ret.league, rnd) = ret.result

\* A call for which other draws give another result with the same
\* probabilities
C23_Witness ==
    /\ ret.op = "analyze_match"
    /\ ret.home = "Inter"
    /\ ret.away = "Milan"
    /\ \E rnd \in AnalysisDraws :
          /\ SameFloats(rnd, ret.rnd)
          /\ analyze_match(ret.home, ret.away, ret.league, rnd) # ret.result
          /\ analyze_match(ret.home, ret.away, ret.league, rnd).probabilities
               = ret.result.probabilities

\* The edges, in tenths, the stake rule is tried on
Edges == (0 - 100)..100

\* The tier of an edge by the claimed rule
StakeTierOf(edge) ==
    IF edge > 50 THEN "STAR_STAR" ELSE IF edge > 30 THEN "STAR" ELSE "PAUSE"

\* C24: the stake of a result is decided by its edge alone: two stars
\* imply an edge above 5, one star an edge above 3 and at most 5, none an
\* edge of at most 3, negative edges included.  Checked on the result
\* returned and, at each call by name, on the 'value_bet' entry built for
\* every edge from -10 to 10.
C24_StakeFollowsEdge ==
    ret.op = "analyze_match"
        => /\ ret.result.value_bet.stake = StakeTierOf(ret.result.value_bet.edge)
           /\ ret.home # None
                => \A edge \in Edges :
                      value_bet(ret.result.prediction, FInt(50), 200, edge, TRUE).stake
                          = StakeTierOf(edge)

\* A result with a negative edge and no stake
C24_Witness ==
    /\ ret.op = "analyze_match"
    /\ ret.home # None
    /\ ret.result.value_bet.edge < 0
    /\ ret.result.value_bet.stake = "PAUSE"

\* The largest of three numbers
Max3(a, b, c) == IF a >= b /\ a >= c THEN a ELSE IF b >= c THEN b ELSE c

\* C25: the prediction is '1' when the home probability is strictly the
\* largest, else 'X' when the draw probability is strictly the largest,
\* else '2' (so equal scores give '2'); the confidence is the probability
\* of the predicted outcome and the largest of the three.
C25_PredictionIsStrictlyLargest ==
    ret.op = "analyze_match"
        => /\ ret.result.prediction =
                (IF /\ ret.result.probabilities.home > ret.result.probabilities.away
                    /\ ret.result.probabilities.home > ret.result.probabilities.draw
                 THEN "1"
                 ELSE IF /\ ret.result.probabilities.draw > ret.result.probabilities.home
                         /\ ret.result.probabilities.draw > ret.result.probabilities.away
                      THEN "X"
                      ELSE "2")
           /\ scores_from(ret.home_score, ret.away_score).home
                  = scores_from(ret.home_score, ret.away_score).away
                => ret.result.prediction = "2"
           /\ ret.result.confidence = by_outcome(ret.result.prediction, ret.result.probabilities)
           /\ ret.result.confidence = Max3(ret.result.probabilities.home,
                                           ret.result.probabilities.draw,
                                           ret.result.probabilities.away)

\* A call with equal scores: no probability is strictly the largest
C25_Witness ==
    /\ ret.op = "analyze_match"
    /\ ret.home_score = 7
    /\ ret.away_score = 7
    /\ ret.result.probabilities.home = ret.result.probabilities.away
    /\ ret.result.prediction = "2"
    /\ ret.result.confidence = ret.result.probabilities.away

\* C26: each of the three probabilities analyze_match returns lies between
\* 0 and 100, whatever the two scores in 0..99.  Stated for the calls
\* given by their scores.
C26_ProbabilitiesArePercentages ==
    (ret.op = "analyze_match" /\ ret.home = None)
        => /\ ret.result.probabilities.home >= 0 /\ ret.result.probabilities.home <= 1000
           /\ ret.result.probabilities.draw >= 0 /\ ret.result.probabilities.draw <= 1000
           /\ ret.result.probabilities.away >= 0 /\ ret.result.probabilities.away <= 1000

\* The three probabilities before rounding, from the scores of a call
UnroundedProbabilities(home_score, away_score) ==
    match_probabilities(reduced_probabilities(raw_probabilities(
        scores_from(home_score, away_score))))

\* C27: whatever the scores, home_prob + away_prob is 100 before the draw
\* share is taken off, so draw_prob is the floor of 20, the draw
\* probability after the division by total is 18.75, the home or the away
\* probability is 40.625 or more, and the prediction is never 'X'.
C27_DrawIsConstantAndNeverPredicted ==
    ret.op = "analyze_match"
        => /\ raw_probabilities(scores_from(ret.home_score, ret.away_score)).draw = FInt(20)
           /\ UnroundedProbabilities(ret.home_score, ret.away_score).draw = Frac(75, 4)
           /\ \/ ~FGt(Frac(325, 8), UnroundedProbabilities(ret.home_score, ret.away_score).home)
              \/ ~FGt(Frac(325, 8), UnroundedProbabilities(ret.home_score, ret.away_score).away)
           /\ ret.result.probabilities.draw \in {187, 188}
           /\ ret.result.prediction # "X"

\* A call with far apart scores: the draw probability is the same 18.75
C27_Witness ==
    /\ ret.op = "analyze_match"
    /\ ret.home_score = 99
    /\ ret.away_score = 1
    /\ UnroundedProbabilities(ret.home_score, ret.away_score).draw = Frac(75, 4)
    /\ ret.result.prediction = "1"

\* C28: whatever the scores and the margin drawn, the edge of the predicted
\* outcome is negative, the stake is none, and /predict saves no value bet:
\* the value_bets table stays empty.
C28_EdgeIsNegativeAndNoValueBetSaved ==
    /\ value_bets = <<>>
    /\ ret.op = "quick_predict"
          => /\ ret.result.value_bet.edge < 0
             /\ ret.result.value_bet.stake = "PAUSE"
             /\ "save_value_bet" \notin ret.calls

\* A /predict with the smallest margin taken off the predicted outcome's
\* odds (0.97): the prediction is saved, no value bet
C28_Witness ==
    /\ ret.op = "quick_predict"
    /\ by_outcome(ret.result.prediction, ret.rnd.margin) = <<97, 100>>
    /\ ret.result.value_bet.edge < 0
    /\ ret.result.value_bet.edge >= 0 - 35
    /\ Len(predictions) = 1
    /\ value_bets = <<>>

\* C29: whatever the /health request does on the shared cursor meanwhile,
\* a get_or_create_user call returns with a users row of its telegram_id
\* stored, and a get_user_predictions call returns the caller's own rows,
\* most recent first.
C29_HealthCheckDoesNotDisturbTheStore ==
    /\ (bot.pc = "returned" /\ bot.op = "get_or_create_user")
          => bot.telegram_id \in DOMAIN users
    /\ (bot.pc = "returned" /\ bot.op = "get_user_predictions")
          => bot.result \in get_user_predictions(bot.telegram_id,
                                                 DefaultPredictionsLimit, TRUE)

====
